---- MODULE Spec2Model ----
(***************************************************************************)
(* spacehogs: a concurrent, post-order directory-size aggregator.          *)
(*                                                                         *)
(* One goroutine per directory walks it (walkDirRecursive), appends the    *)
(* qualifying entries to the global slice `results` under resultsMutex,    *)
(* and hands its total to its parent over the parent's sizeChannel.  run   *)
(* validates the arguments, walks the root, appends the root, sorts and    *)
(* prints.  Strings are sequences of one-character strings.  Sizes are     *)
(* uint64 in the code; the sizes of the model stay far below 2^64.         *)
(***************************************************************************)
EXTENDS Integers, Sequences, FiniteSets, Bags, TLC

\* ------------------------------------------------------------------ bounds

\* Largest size of the two files whose size the initial states vary.
MaxSize == 2
\* Number of invocations of run in one process (the test harness's loop).
MaxRuns == 2
\* Longest string handed to parseSize.
MaxLen == 3

\* ----------------------------------------------------------------- strings

Space == " "
Slash == "/"
Comma == ","
Dot == "."

\* Byte order of the characters that occur in paths ('/' before 'H' before the small letters).
CharOrder == <<"/", "H", "a", "b", "c", "f", "g", "r", "x">>

Ord(c) == CHOOSE i \in 1..Len(CharOrder) : CharOrder[i] = c

\* Go's string `<`: byte-wise lexicographic, a proper prefix is smaller.
RECURSIVE StrLess(_, _)
StrLess(s, t) ==
    IF t = <<>> THEN FALSE
    ELSE IF s = <<>> THEN TRUE
    ELSE IF Head(s) = Head(t) THEN StrLess(Tail(s), Tail(t))
    ELSE Ord(Head(s)) < Ord(Head(t))

\* strings.TrimSpace on the strings of the model (the only white space is ' ').
RECURSIVE TrimLeft(_)
TrimLeft(s) == IF s # <<>> /\ Head(s) = Space THEN TrimLeft(Tail(s)) ELSE s

RECURSIVE TrimRight(_)
TrimRight(s) ==
    IF s # <<>> /\ s[Len(s)] = Space THEN TrimRight(SubSeq(s, 1, Len(s) - 1)) ELSE s

TrimSpace(s) == TrimRight(TrimLeft(s))

\* strings.Split(s, ","): the fields between the commas, empty ones included.
RECURSIVE SplitAcc(_, _, _)
SplitAcc(s, cur, acc) ==
    IF s = <<>> THEN Append(acc, cur)
    ELSE IF Head(s) = Comma THEN SplitAcc(Tail(s), <<>>, Append(acc, cur))
    ELSE SplitAcc(Tail(s), Append(cur, Head(s)), acc)

Split(s) == SplitAcc(s, <<>>, <<>>)

\* run's exclude set: the trimmed, non-empty fields of the -exclude flag.
BuildExcludeSet(excludeDirs) ==
    IF excludeDirs = <<>> THEN {}
    ELSE LET fields == Split(excludeDirs)
         IN  {TrimSpace(fields[i]) : i \in 1..Len(fields)} \ {<<>>}

\* filepath.Join(path, name) for a clean path and a bare name.
Join(path, name) == path \o <<Slash>> \o name

\* filepath.Clean on the paths of the model: trailing separators are dropped.
RECURSIVE Clean(_)
Clean(p) ==
    IF Len(p) > 1 /\ p[Len(p)] = Slash THEN Clean(SubSeq(p, 1, Len(p) - 1)) ELSE p

\* filepath.Base of a clean path: what follows the last separator.
RECURSIVE Base(_)
Base(p) ==
    IF \E i \in 1..Len(p) : p[i] = Slash
    THEN Base(Tail(p))
    ELSE p

\* --------------------------------------------------------------- parseSize

DigitChars == <<"0", "1", "2", "3", "4", "5", "6", "7", "8", "9">>
IsDigit(c) == \E i \in 1..Len(DigitChars) : DigitChars[i] = c
DigitVal(c) == (CHOOSE i \in 1..Len(DigitChars) : DigitChars[i] = c) - 1

UnitLetters == {"k", "m", "g", "t", "p", "K", "M", "G", "T", "P"}
BLetters == {"b", "B"}

\* strings.ToUpper on a unit letter.
ToUpper(c) ==
    CASE c = "k" -> "K" [] c = "m" -> "M" [] c = "g" -> "G"
      [] c = "t" -> "T" [] c = "p" -> "P" [] c = "b" -> "B"
      [] OTHER -> c

\* Length of the longest prefix matching [\d\.]* (the regexp's greedy group 1).
RECURSIVE NumPrefixLen(_)
NumPrefixLen(s) ==
    IF s # <<>> /\ (IsDigit(Head(s)) \/ Head(s) = Dot)
    THEN 1 + NumPrefixLen(Tail(s))
    ELSE 0

\* The rest of the string matches ([kmgtp]?b?)$, case-insensitively.
UnitMatches(u) ==
    \/ u = <<>>
    \/ Len(u) = 1 /\ u[1] \in UnitLetters \cup BLetters
    \/ Len(u) = 2 /\ u[1] \in UnitLetters /\ u[2] \in BLetters

\* re.FindStringSubmatch(strings.TrimSpace(sizeStr)): the two groups, or no match.
SizeMatch(sizeStr) ==
    LET t == TrimSpace(sizeStr)
        k == NumPrefixLen(t)
        u == TrimLeft(SubSeq(t, k + 1, Len(t)))
    IN  IF k >= 1 /\ UnitMatches(u)
        THEN [ok |-> TRUE, num |-> SubSeq(t, 1, k), unit |-> u]
        ELSE [ok |-> FALSE, num |-> <<>>, unit |-> <<>>]

RECURSIVE CountDots(_)
CountDots(s) ==
    IF s = <<>> THEN 0 ELSE (IF Head(s) = Dot THEN 1 ELSE 0) + CountDots(Tail(s))

\* The digits of s read as a decimal integer (the dot skipped).
RECURSIVE Mantissa(_, _)
Mantissa(s, acc) ==
    IF s = <<>> THEN acc
    ELSE IF Head(s) = Dot THEN Mantissa(Tail(s), acc)
    ELSE Mantissa(Tail(s), 10 * acc + DigitVal(Head(s)))

\* Number of digits after the dot.
RECURSIVE FracDigits(_)
FracDigits(s) ==
    IF s = <<>> THEN 0
    ELSE IF Head(s) = Dot THEN Len(s) - 1
    ELSE FracDigits(Tail(s))

RECURSIVE Pow(_, _)
Pow(b, e) == IF e = 0 THEN 1 ELSE b * Pow(b, e - 1)

\* A ParseFloat that takes any string of digits and dots for a number.
ParseFloat_Lenient(num) ==
    [ok |-> TRUE,
     mant |-> Mantissa(num, 0),
     frac |-> FracDigits(num)]

\* strconv.ParseFloat on a string of digits and dots: an error unless it has a
\* digit and at most one dot; the value is mant / 10^frac.
ParseFloat(num) ==
    [ok |-> CountDots(num) <= 1 /\ Len(num) > CountDots(num),
     mant |-> Mantissa(num, 0),
     frac |-> FracDigits(num)]

\* The switch on the upper-cased unit's prefix: the power of 1024 applied.
UnitExponent(unit) ==
    LET up == IF unit = <<>> THEN "" ELSE ToUpper(unit[1])
    IN  CASE up = "T" -> 4
          [] up = "G" -> 3
          [] up = "M" -> 2
          [] up = "K" -> 1
          [] OTHER -> 0

\* A byte count can exceed the checker's integers (1T is 2^40), so a uint64 is
\* kept as its digits in base 1024, least significant first, without leading
\* zero digits: <<>> is 0, <<0, 1>> is 1024.
Kilo == 1024

RECURSIVE Uint64(_)
Uint64(n) == IF n = 0 THEN <<>> ELSE <<n % Kilo>> \o Uint64(n \div Kilo)

\* The number a digit sequence stands for, where it fits.
RECURSIVE Value(_)
Value(l) == IF l = <<>> THEN 0 ELSE Head(l) + Kilo * Value(Tail(l))

\* size *= 1024 (e times)
ScaleUp(l, e) == IF l = <<>> THEN <<>> ELSE [i \in 1..e |-> 0] \o l

\* Long division of a digit sequence by d, from the most significant digit.
RECURSIVE DivMod(_, _)
DivMod(l, d) ==
    IF l = <<>> THEN [q |-> <<>>, r |-> 0]
    ELSE LET hi == DivMod(Tail(l), d)
             cur == hi.r * Kilo + Head(l)
         IN  [q |-> <<cur \div d>> \o hi.q, r |-> cur % d]

RECURSIVE Normal(_)
Normal(l) ==
    IF l # <<>> /\ l[Len(l)] = 0 THEN Normal(SubSeq(l, 1, Len(l) - 1)) ELSE l

\* uint64(size) for size = mant * 1024^e / 10^frac: the fraction is cut off.
Truncate(mant, e, frac) == Normal(DivMod(ScaleUp(Uint64(mant), e), Pow(10, frac)).q)

\* parseSize(sizeStr): (bytes, error).
parseSize(sizeStr) ==
    LET m == SizeMatch(sizeStr)
        f == ParseFloat(m.num)
    IN  IF ~m.ok THEN [err |-> "invalid size format", val |-> Uint64(0)]
        ELSE IF ~f.ok THEN [err |-> "invalid size number", val |-> Uint64(0)]
        ELSE [err |-> "nil", val |-> Truncate(f.mant, UnitExponent(m.unit), f.frac)]

\* -------------------------------------------------------------- file system

\* The tree on disk (as createTestDir lays one out), by node:
\*   r/ { H, a/ { c/ { g }, f }, b/ { f } }
Root == "r"
Dirs == {"r", "a", "b", "c"}
Files == {"H", "af", "cg", "bf"}
Nodes == Dirs \cup Files

\* entry.Name(): the bare name of a node.
Name(n) ==
    CASE n = "r" -> <<"r">>
      [] n = "a" -> <<"a">>
      [] n = "b" -> <<"b">>
      [] n = "c" -> <<"c">>
      [] n = "af" -> <<"f">>
      [] n = "bf" -> <<"f">>
      [] n = "cg" -> <<"g">>
      [] n = "H" -> <<"H">>

\* entry.IsDir()
IsDir(n) == n \in Dirs

Parent(n) ==
    CASE n \in {"H", "a", "b"} -> "r"
      [] n \in {"c", "af"} -> "a"
      [] n = "bf" -> "b"
      [] n = "cg" -> "c"

\* os.ReadDir(d) of a readable directory: its entries, sorted by file name.
Entries(d) ==
    CASE d = "r" -> <<"H", "a", "b">>
      [] d = "a" -> <<"c", "af">>
      [] d = "b" -> <<"bf">>
      [] d = "c" -> <<"cg">>

\* The directories from n's parent up to the root.
RECURSIVE Ancestors(_)
Ancestors(n) == IF n = Root THEN {} ELSE {Parent(n)} \cup Ancestors(Parent(n))

\* n lies in the subtree of d (d itself included).
Under(n, d) == n = d \/ d \in Ancestors(n)

\* -------------------------------------------------------------------- state

VARIABLES
    fsize,          \* file system: the size of each file
    unreadable,     \* file system: the directories os.ReadDir fails on
    nostat,         \* file system: the files entry.Info() fails on
    argv,           \* the command line: positional count, directory, size, -exclude
    results,        \* the global slice of FileInfo
    resultsMutex,   \* "free" or the task holding the lock
    pc,             \* each task's position (one goroutine per directory; Root is main)
    idx,            \* walkDirRecursive: index of the next entry of the range loop
    totalSize,      \* walkDirRecursive: the local running total
    wg,             \* walkDirRecursive: the WaitGroup's counter
    sizeChannel,    \* walkDirRecursive: the buffered channel's content
    closed,         \* walkDirRecursive: whether sizeChannel is closed
    pending,        \* the FileInfo in hand (fileSize / subdirSize and its path)
    snap,           \* addResult: the slice value read by append
    ret,            \* the value walkDirRecursive returned for each directory
    scanPath,       \* run: the cleaned directory argument
    threshold,      \* run: the parsed size argument
    excludeSet,     \* run: the set of excluded names
    err,            \* run: its return value ("none" while it runs, "nil" for success)
    stdout,         \* run: the listing printed
    runs,           \* harness: the number of the current invocation
    base,           \* history: len(results) when the current invocation started
    calls,          \* history: addResult calls made in the current invocation
    prev,           \* history: total and entries of the previous invocation
    sizeStr,        \* TestParseSize: the input of the case in hand
    parsed          \* TestParseSize: what parseSize returned for it

vars == <<fsize, unreadable, nostat, argv, results, resultsMutex, pc, idx, totalSize,
          wg, sizeChannel, closed, pending, snap, ret, scanPath, threshold,
          excludeSet, err, stdout, runs, base, calls, prev, sizeStr, parsed>>

\* What no step of run writes: the disk, the arguments, the size parser's case.
fsVars == <<fsize, unreadable, nostat, argv, sizeStr, parsed>>
walkVars == <<idx, totalSize, wg, sizeChannel, closed, ret>>
runVars == <<scanPath, threshold, excludeSet, err, stdout>>
histVars == <<runs, base, prev>>

NoInfo == [Path |-> <<>>, Size |-> 0, IsDir |-> FALSE]
FileInfo(path, size, isDir) == [Path |-> path, Size |-> size, IsDir |-> isDir]

\* filepath.Join(path, entry.Name()) down from the scan path.
RECURSIVE FullPath(_)
FullPath(n) == IF n = Root THEN scanPath ELSE Join(FullPath(Parent(n)), Name(n))

\* The path the tree's root has on disk, and what os.Stat finds at a path.
RootPath == Name(Root)
StatKind(p) ==
    IF p = RootPath THEN "dir"
    ELSE IF \E f \in Files : p = Join(RootPath, Name(f)) /\ Parent(f) = Root THEN "file"
    ELSE "missing"

\* ------------------------------------------------------------------- inputs

Arg(n, dir, size, exclude) == [narg |-> n, dir |-> dir, minSize |-> size, exclude |-> exclude]

\* -exclude values: disabled, a file name found at two depths, a directory and a
\* file (with blanks to trim), and the flag's default.
NoExclude == <<>>
ExcludeF == <<"f">>
ExcludeCH == <<"c", ",", " ", "H", " ">>
ExcludeDefault == <<"p", "r", "o", "c", ",", "d", "e", "v", ",", "s", "y", "s">>
ExcludeRoot == <<"r">>

Excludes == {NoExclude, ExcludeF, ExcludeCH}
SizeArgs == {<<"0">>, <<"2">>, <<"4">>}

GoodArgvs == {Arg(2, RootPath, s, e) : s \in SizeArgs, e \in Excludes}
OtherArgvs ==
    {Arg(2, RootPath \o <<Slash>>, <<"1", ".", "5">>, ExcludeDefault),
     Arg(1, RootPath, <<>>, NoExclude),
     Arg(3, RootPath, <<"2">>, NoExclude),
     Arg(2, RootPath, <<"2", "x">>, NoExclude),
     Arg(2, RootPath, <<"1", ".", "2", ".", "3">>, NoExclude),
     Arg(2, <<"x">>, <<"2">>, NoExclude),
     Arg(2, Join(RootPath, <<"H">>), <<"2">>, NoExclude),
     Arg(2, RootPath, <<"2">>, ExcludeRoot),
     Arg(2, RootPath \o <<Slash>>, <<"2">>, ExcludeRoot),
     Arg(2, RootPath, <<"2", "x">>, ExcludeRoot),
     Arg(2, <<"x">>, <<"2">>, <<"x">>)}

FileSizes ==
    {[f \in Files |-> CASE f = "af" -> 2 [] f = "H" -> 1 [] f = "cg" -> x [] f = "bf" -> y] :
        x \in 1..MaxSize, y \in 1..MaxSize}

\* The I/O failures of a scan: none, an unreadable directory, a file without info, both.
Failures == {<<{}, {}>>, <<{"a"}, {}>>, <<{"c"}, {}>>, <<{"r"}, {}>>, <<{}, {"af"}>>,
              <<{"c"}, {"af"}>>}

RunsFailures == {<<{}, {}>>, <<{"c"}, {}>>}

Fresh(v) == [d \in Dirs |-> v]

\* No size has been parsed.
NotParsed == [err |-> "none", val |-> <<>>]

\* The strings handed to parseSize: every string of at most MaxLen of these characters.
ParseChars == {"0", "1", "5", Dot, "-", Space, "K", "k", "M", "G", "T", "t", "P", "p", "B", "b", "x"}
SizeStrings == UNION {[1..n -> ParseChars] : n \in 0..MaxLen}

\* Nothing is running.
InitIdle ==
    /\ resultsMutex = "free"
    /\ idx = Fresh(0)
    /\ totalSize = Fresh(0)
    /\ wg = Fresh(0)
    /\ sizeChannel = Fresh(<<>>)
    /\ closed = Fresh(FALSE)
    /\ pending = Fresh(NoInfo)
    /\ snap = Fresh(<<>>)
    /\ ret = Fresh(0)
    /\ scanPath = <<>>
    /\ threshold = 0
    /\ excludeSet = {}
    /\ err = "none"
    /\ stdout = <<>>
    /\ runs = 1
    /\ base = 0
    /\ calls = 0
    /\ prev = [valid |-> FALSE, total |-> 0, entries |-> EmptyBag, rets |-> Fresh(0)]

\* What does not depend on who calls run.
InitRest ==
    /\ fsize \in FileSizes
    /\ argv \in GoodArgvs \cup OtherArgvs
    /\ sizeStr = <<>>
    /\ parsed = NotParsed
    /\ InitIdle

\* main: the process starts with results nil and calls run once.
Init ==
    /\ InitRest
    /\ \E fail \in Failures : unreadable = fail[1] /\ nostat = fail[2]
    /\ results = <<>>
    /\ pc = [d \in Dirs |-> IF d = Root THEN "start" ELSE "idle"]

\* What an earlier test of the same process left in results.
Leftover == <<FileInfo(<<"x">>, 1, FALSE)>>

\* The invocations whose every schedule is followed to its end: a scan with
\* entries recorded from several tasks, one with excluded names, and one that
\* run turns down; each on the tree without failures and with each failure.
FairArgvs ==
    {Arg(2, RootPath, <<"2">>, NoExclude),
     Arg(2, RootPath, <<"0">>, ExcludeCH),
     Arg(2, RootPath, <<"2">>, ExcludeRoot)}

InitFair ==
    /\ Init
    /\ argv \in FairArgvs
    /\ fsize = [f \in Files |-> IF f = "af" THEN 2 ELSE 1]

\* TestParseSize: one case of the table, nothing else going on.
InitParse ==
    /\ sizeStr \in SizeStrings
    /\ parsed = NotParsed
    /\ fsize = [f \in Files |-> 1]
    /\ unreadable = {}
    /\ nostat = {}
    /\ argv = Arg(0, <<>>, <<>>, <<>>)
    /\ results = <<>>
    /\ pc = [d \in Dirs |-> "idle"]
    /\ InitIdle

\* The tests: the loop is about to reset results and call run.
InitRuns ==
    /\ InitRest
    /\ \E fail \in RunsFailures : unreadable = fail[1] /\ nostat = fail[2]
    /\ results = Leftover
    /\ pc = [d \in Dirs |-> IF d = Root THEN "reset" ELSE "idle"]

\* The tests with a table of thresholds: the first case is about to run.
InitThresholds ==
    /\ InitRuns
    /\ argv \in GoodArgvs \cup {Arg(2, RootPath, <<"2", "x">>, NoExclude)}

\* ---------------------------------------------------------------- addResult

\* Lock that does not wait for the holder to unlock.
Lock_NoWait(d) ==
    /\ pc[d] = "lock"
    /\ resultsMutex' = d
    /\ pc' = [pc EXCEPT ![d] = "append"]
    /\ UNCHANGED <<fsVars, results, walkVars, pending, snap, runVars, histVars, calls>>

\* resultsMutex.Lock()
Lock(d) ==
    /\ pc[d] = "lock"
    /\ resultsMutex = "free"
    /\ resultsMutex' = d
    /\ pc' = [pc EXCEPT ![d] = "append"]
    /\ UNCHANGED <<fsVars, results, walkVars, pending, snap, runVars, histVars, calls>>

\* append(results, ...): the slice is read ...
AppendLoad(d) ==
    /\ pc[d] = "append"
    /\ snap' = [snap EXCEPT ![d] = results]
    /\ pc' = [pc EXCEPT ![d] = "store"]
    /\ UNCHANGED <<fsVars, results, resultsMutex, walkVars, pending, runVars, histVars, calls>>

\* A store that puts the new FileInfo in front of the slice read.
AppendStore_Prepend(d) ==
    /\ pc[d] = "store"
    /\ results' = <<pending[d]>> \o snap[d]
    /\ snap' = [snap EXCEPT ![d] = <<>>]
    /\ pc' = [pc EXCEPT ![d] = "unlock"]
    /\ UNCHANGED <<fsVars, resultsMutex, walkVars, pending, runVars, histVars, calls>>

\* ... and results = the slice read, extended by the new FileInfo.
AppendStore(d) ==
    /\ pc[d] = "store"
    /\ results' = Append(snap[d], pending[d])
    /\ snap' = [snap EXCEPT ![d] = <<>>]
    /\ pc' = [pc EXCEPT ![d] = "unlock"]
    /\ UNCHANGED <<fsVars, resultsMutex, walkVars, pending, runVars, histVars, calls>>

\* Where addResult's caller goes on: the file loop, the goroutine's send, run's sort.
AfterAdd(d) ==
    IF ~pending[d].IsDir THEN "addsize"
    ELSE IF d = Root THEN "sort"
    ELSE "send"

\* resultsMutex.Unlock(), and the return to the caller.
Unlock(d) ==
    /\ pc[d] = "unlock"
    /\ resultsMutex' = "free"
    /\ pc' = [pc EXCEPT ![d] = AfterAdd(d)]
    /\ pending' = [pending EXCEPT ![d] = IF pending[d].IsDir THEN NoInfo ELSE @]
    /\ UNCHANGED <<fsVars, results, walkVars, snap, runVars, histVars, calls>>

\* --------------------------------------------------------- walkDirRecursive

\* The exclusion applied to directories only.
Excluded_DirsOnly(e) == IsDir(e) /\ Name(e) \in excludeSet

\* _, excluded := excludeSet[entry.Name()]
Excluded(e) == Name(e) \in excludeSet

\* The loop's next position: the next entry, or wg.Wait() after the last one.
LoopPc(d, i) == IF i > Len(Entries(d)) THEN "wait" ELSE "loop"

\* ReadDir whose error is ignored: the directory is walked all the same.
ReadDir_IgnoreError(d) ==
    /\ pc[d] = "readdir"
    /\ idx' = [idx EXCEPT ![d] = 1]
    /\ totalSize' = [totalSize EXCEPT ![d] = 0]
    /\ wg' = [wg EXCEPT ![d] = 0]
    /\ sizeChannel' = [sizeChannel EXCEPT ![d] = <<>>]
    /\ closed' = [closed EXCEPT ![d] = FALSE]
    /\ pc' = [pc EXCEPT ![d] = LoopPc(d, 1)]
    /\ UNCHANGED <<fsVars, results, resultsMutex, ret, pending, snap, runVars, histVars, calls>>

\* os.ReadDir(path): on an error return 0; else the locals are set up.
ReadDir(d) ==
    /\ pc[d] = "readdir"
    /\ IF d \in unreadable
       THEN /\ ret' = [ret EXCEPT ![d] = 0]
            /\ pc' = [pc EXCEPT ![d] = "check"]
            /\ UNCHANGED <<idx, totalSize, wg, sizeChannel, closed>>
       ELSE /\ idx' = [idx EXCEPT ![d] = 1]
            /\ totalSize' = [totalSize EXCEPT ![d] = 0]
            /\ wg' = [wg EXCEPT ![d] = 0]
            /\ sizeChannel' = [sizeChannel EXCEPT ![d] = <<>>]
            /\ closed' = [closed EXCEPT ![d] = FALSE]
            /\ pc' = [pc EXCEPT ![d] = LoopPc(d, 1)]
            /\ UNCHANGED ret
    /\ UNCHANGED <<fsVars, results, resultsMutex, pending, snap, runVars, histVars, calls>>

\* The entry's name is in excludeSet: continue.
SkipExcluded(d) ==
    /\ pc[d] = "loop"
    /\ Excluded(Entries(d)[idx[d]])
    /\ idx' = [idx EXCEPT ![d] = @ + 1]
    /\ pc' = [pc EXCEPT ![d] = LoopPc(d, idx[d] + 1)]
    /\ UNCHANGED <<fsVars, results, resultsMutex, totalSize, wg, sizeChannel, closed,
                   ret, pending, snap, runVars, histVars, calls>>

\* A goroutine started without wg.Add(1).
Spawn_NoAdd(d) ==
    /\ pc[d] = "loop"
    /\ LET e == Entries(d)[idx[d]]
       IN  /\ ~Excluded(e)
           /\ IsDir(e)
           /\ pc' = [pc EXCEPT ![d] = LoopPc(d, idx[d] + 1), ![e] = "readdir"]
    /\ idx' = [idx EXCEPT ![d] = @ + 1]
    /\ UNCHANGED <<fsVars, results, resultsMutex, totalSize, wg, sizeChannel, closed,
                   ret, pending, snap, runVars, histVars, calls>>

\* The entry is a directory: wg.Add(1) and a goroutine for it.
Spawn(d) ==
    /\ pc[d] = "loop"
    /\ LET e == Entries(d)[idx[d]]
       IN  /\ ~Excluded(e)
           /\ IsDir(e)
           /\ wg' = [wg EXCEPT ![d] = @ + 1]
           /\ pc' = [pc EXCEPT ![d] = LoopPc(d, idx[d] + 1), ![e] = "readdir"]
    /\ idx' = [idx EXCEPT ![d] = @ + 1]
    /\ UNCHANGED <<fsVars, results, resultsMutex, totalSize, sizeChannel, closed,
                   ret, pending, snap, runVars, histVars, calls>>

\* The entry is a file: entry.Info(); on an error continue; else compare its size
\* with the threshold and call addResult when it reaches it.
StatFile(d) ==
    /\ pc[d] = "loop"
    /\ LET e == Entries(d)[idx[d]]
       IN  /\ ~Excluded(e)
           /\ ~IsDir(e)
           /\ IF e \in nostat
              THEN /\ idx' = [idx EXCEPT ![d] = @ + 1]
                   /\ pc' = [pc EXCEPT ![d] = LoopPc(d, idx[d] + 1)]
                   /\ UNCHANGED <<pending, calls>>
              ELSE /\ pending' = [pending EXCEPT ![d] = FileInfo(FullPath(e), fsize[e], FALSE)]
                   /\ pc' = [pc EXCEPT ![d] = IF fsize[e] >= threshold THEN "lock" ELSE "addsize"]
                   /\ calls' = IF fsize[e] >= threshold THEN calls + 1 ELSE calls
                   /\ UNCHANGED idx
    /\ UNCHANGED <<fsVars, results, resultsMutex, totalSize, wg, sizeChannel, closed,
                   ret, snap, runVars, histVars>>

\* A total that counts a file only when its size reaches the threshold.
AddSize_IfQualifies(d) ==
    /\ pc[d] = "addsize"
    /\ totalSize' = [totalSize EXCEPT
                        ![d] = IF pending[d].Size >= threshold THEN @ + pending[d].Size ELSE @]
    /\ pending' = [pending EXCEPT ![d] = NoInfo]
    /\ idx' = [idx EXCEPT ![d] = @ + 1]
    /\ pc' = [pc EXCEPT ![d] = LoopPc(d, idx[d] + 1)]
    /\ UNCHANGED <<fsVars, results, resultsMutex, wg, sizeChannel, closed, ret, snap,
                   runVars, histVars, calls>>

\* totalSize += fileSize, and on to the next entry.
AddSize(d) ==
    /\ pc[d] = "addsize"
    /\ totalSize' = [totalSize EXCEPT ![d] = @ + pending[d].Size]
    /\ pending' = [pending EXCEPT ![d] = NoInfo]
    /\ idx' = [idx EXCEPT ![d] = @ + 1]
    /\ pc' = [pc EXCEPT ![d] = LoopPc(d, idx[d] + 1)]
    /\ UNCHANGED <<fsVars, results, resultsMutex, wg, sizeChannel, closed, ret, snap,
                   runVars, histVars, calls>>

\* Wait that returns while children still run.
Wait_NoWait(d) ==
    /\ pc[d] = "wait"
    /\ pc' = [pc EXCEPT ![d] = "close"]
    /\ UNCHANGED <<fsVars, results, resultsMutex, walkVars, pending, snap, runVars,
                   histVars, calls>>

\* wg.Wait(): blocks until the counter is zero.
Wait(d) ==
    /\ pc[d] = "wait"
    /\ wg[d] = 0
    /\ pc' = [pc EXCEPT ![d] = "close"]
    /\ UNCHANGED <<fsVars, results, resultsMutex, walkVars, pending, snap, runVars,
                   histVars, calls>>

\* close(sizeChannel)
Close(d) ==
    /\ pc[d] = "close"
    /\ closed' = [closed EXCEPT ![d] = TRUE]
    /\ pc' = [pc EXCEPT ![d] = "drain"]
    /\ UNCHANGED <<fsVars, results, resultsMutex, idx, totalSize, wg, sizeChannel, ret,
                   pending, snap, runVars, histVars, calls>>

\* Recv with `totalSize = size` for `totalSize += size`.
Recv_Overwrite(d) ==
    /\ pc[d] = "drain"
    /\ sizeChannel[d] # <<>>
    /\ totalSize' = [totalSize EXCEPT ![d] = Head(sizeChannel[d])]
    /\ sizeChannel' = [sizeChannel EXCEPT ![d] = Tail(@)]
    /\ UNCHANGED <<fsVars, results, resultsMutex, pc, idx, wg, closed, ret, pending, snap,
                   runVars, histVars, calls>>

\* A range loop that reads the values and adds none.
Recv_Drop(d) ==
    /\ pc[d] = "drain"
    /\ sizeChannel[d] # <<>>
    /\ sizeChannel' = [sizeChannel EXCEPT ![d] = Tail(@)]
    /\ UNCHANGED <<fsVars, results, resultsMutex, pc, idx, totalSize, wg, closed, ret,
                   pending, snap, runVars, histVars, calls>>

\* for size := range sizeChannel { totalSize += size }: one value received.
Recv(d) ==
    /\ pc[d] = "drain"
    /\ sizeChannel[d] # <<>>
    /\ totalSize' = [totalSize EXCEPT ![d] = @ + Head(sizeChannel[d])]
    /\ sizeChannel' = [sizeChannel EXCEPT ![d] = Tail(@)]
    /\ UNCHANGED <<fsVars, results, resultsMutex, pc, idx, wg, closed, ret, pending, snap,
                   runVars, histVars, calls>>

\* Return that may leave values in the channel unread.
Return_Early(d) ==
    /\ pc[d] = "drain"
    /\ ret' = [ret EXCEPT ![d] = totalSize[d]]
    /\ pc' = [pc EXCEPT ![d] = "check"]
    /\ UNCHANGED <<fsVars, results, resultsMutex, idx, totalSize, wg, sizeChannel, closed,
                   pending, snap, runVars, histVars, calls>>

\* The range ends on the closed, empty channel: return totalSize.
Return(d) ==
    /\ pc[d] = "drain"
    /\ sizeChannel[d] = <<>>
    /\ closed[d]
    /\ ret' = [ret EXCEPT ![d] = totalSize[d]]
    /\ pc' = [pc EXCEPT ![d] = "check"]
    /\ UNCHANGED <<fsVars, results, resultsMutex, idx, totalSize, wg, sizeChannel, closed,
                   pending, snap, runVars, histVars, calls>>

\* GoCheck with `>` for `>=`.
GoCheck_Strict(d) ==
    /\ d # Root
    /\ pc[d] = "check"
    /\ IF ret[d] > threshold
       THEN /\ pending' = [pending EXCEPT ![d] = FileInfo(FullPath(d), ret[d], TRUE)]
            /\ pc' = [pc EXCEPT ![d] = "lock"]
            /\ calls' = calls + 1
       ELSE /\ pc' = [pc EXCEPT ![d] = "send"]
            /\ UNCHANGED <<pending, calls>>
    /\ UNCHANGED <<fsVars, results, resultsMutex, walkVars, snap, runVars, histVars>>

\* The goroutine after its walkDirRecursive(p) returned: subdirSize >= threshold
\* calls addResult(p, subdirSize, true); else straight to the send.
GoCheck(d) ==
    /\ d # Root
    /\ pc[d] = "check"
    /\ IF ret[d] >= threshold
       THEN /\ pending' = [pending EXCEPT ![d] = FileInfo(FullPath(d), ret[d], TRUE)]
            /\ pc' = [pc EXCEPT ![d] = "lock"]
            /\ calls' = calls + 1
       ELSE /\ pc' = [pc EXCEPT ![d] = "send"]
            /\ UNCHANGED <<pending, calls>>
    /\ UNCHANGED <<fsVars, results, resultsMutex, walkVars, snap, runVars, histVars>>

\* A channel without a buffer.
Cap_Unbuffered(d) == 0

\* make(chan uint64, len(entries)): the capacity of d's channel.
Cap(d) == Len(Entries(d))

\* sizeChannel <- subdirSize on the parent's channel: blocks while the buffer is
\* full, panics on a closed channel.
Send(d) ==
    /\ d # Root
    /\ pc[d] = "send"
    /\ LET p == Parent(d)
       IN  IF closed[p]
           THEN /\ pc' = [pc EXCEPT ![d] = "panic"]
                /\ UNCHANGED sizeChannel
           ELSE /\ Len(sizeChannel[p]) < Cap(p)
                /\ sizeChannel' = [sizeChannel EXCEPT ![p] = Append(@, ret[d])]
                /\ pc' = [pc EXCEPT ![d] = "done"]
    /\ UNCHANGED <<fsVars, results, resultsMutex, idx, totalSize, wg, closed, ret, pending,
                   snap, runVars, histVars, calls>>

\* A goroutine that ends without wg.Done().
Done_NoSignal(d) ==
    /\ d # Root
    /\ pc[d] = "done"
    /\ pc' = [pc EXCEPT ![d] = "finished"]
    /\ UNCHANGED <<fsVars, results, resultsMutex, idx, totalSize, wg, sizeChannel, closed,
                   ret, pending, snap, runVars, histVars, calls>>

\* The deferred wg.Done(), and the goroutine ends.
Done(d) ==
    /\ d # Root
    /\ pc[d] = "done"
    /\ wg' = [wg EXCEPT ![Parent(d)] = @ - 1]
    /\ pc' = [pc EXCEPT ![d] = "finished"]
    /\ UNCHANGED <<fsVars, results, resultsMutex, idx, totalSize, sizeChannel, closed, ret,
                   pending, snap, runVars, histVars, calls>>

\* ---------------------------------------------------------------------- run

\* Checks that never look at the exclude set.
RunOutcome_NoExcludeCheck(a) ==
    LET sp == Clean(a.dir)
    IN  IF a.narg # 2 THEN "invalid number of arguments"
        ELSE IF parseSize(a.minSize).err # "nil" THEN parseSize(a.minSize).err
        ELSE IF StatKind(sp) = "missing" THEN "error accessing"
        ELSE IF StatKind(sp) = "file" THEN "is not a directory"
        ELSE "scan"

\* run's checks before the scan, in the code's order: what it returns, or "scan".
RunOutcome(a) ==
    LET ex == BuildExcludeSet(a.exclude)
        sp == Clean(a.dir)
    IN  IF a.narg # 2 THEN "invalid number of arguments"
        ELSE IF Base(sp) \in ex THEN "excluded"
        ELSE IF parseSize(a.minSize).err # "nil" THEN parseSize(a.minSize).err
        ELSE IF StatKind(sp) = "missing" THEN "error accessing"
        ELSE IF StatKind(sp) = "file" THEN "is not a directory"
        ELSE "scan"

\* run returns before the scan: an error, or nil for an excluded top-level directory.
RunReject ==
    /\ pc[Root] = "start"
    /\ RunOutcome(argv) # "scan"
    /\ err' = IF RunOutcome(argv) = "excluded" THEN "nil" ELSE RunOutcome(argv)
    /\ stdout' = IF RunOutcome(argv) = "excluded"
                 THEN <<[Type |-> "excluded", Size |-> 0, Path |-> Clean(argv.dir)]>>
                 ELSE <<>>
    /\ pc' = [pc EXCEPT ![Root] = "exit"]
    /\ base' = Len(results)
    /\ calls' = 0
    /\ UNCHANGED <<fsVars, results, resultsMutex, walkVars, pending, snap, scanPath,
                   threshold, excludeSet, runs, prev>>

\* run passes its checks and calls walkDirRecursive(scanPath, threshold, excludeSet).
RunScan ==
    /\ pc[Root] = "start"
    /\ RunOutcome(argv) = "scan"
    /\ excludeSet' = BuildExcludeSet(argv.exclude)
    /\ scanPath' = Clean(argv.dir)
    /\ threshold' = Value(parseSize(argv.minSize).val)
    /\ err' = "none"
    /\ stdout' = <<>>
    /\ pc' = [d \in Dirs |-> IF d = Root THEN "readdir" ELSE "idle"]
    /\ idx' = Fresh(0)
    /\ totalSize' = Fresh(0)
    /\ wg' = Fresh(0)
    /\ sizeChannel' = Fresh(<<>>)
    /\ closed' = Fresh(FALSE)
    /\ ret' = Fresh(0)
    /\ base' = Len(results)
    /\ calls' = 0
    /\ UNCHANGED <<fsVars, results, resultsMutex, pending, snap, runs, prev>>

\* RunCheck with `>` for `>=`.
RunCheck_Strict ==
    /\ pc[Root] = "check"
    /\ IF ret[Root] > threshold
       THEN /\ pending' = [pending EXCEPT ![Root] = FileInfo(scanPath, ret[Root], TRUE)]
            /\ pc' = [pc EXCEPT ![Root] = "lock"]
            /\ calls' = calls + 1
       ELSE /\ pc' = [pc EXCEPT ![Root] = "sort"]
            /\ UNCHANGED <<pending, calls>>
    /\ UNCHANGED <<fsVars, results, resultsMutex, walkVars, snap, runVars, histVars>>

\* run after walkDirRecursive returned: totalSize >= threshold calls
\* addResult(scanPath, totalSize, true); else straight to the sort.
RunCheck ==
    /\ pc[Root] = "check"
    /\ IF ret[Root] >= threshold
       THEN /\ pending' = [pending EXCEPT ![Root] = FileInfo(scanPath, ret[Root], TRUE)]
            /\ pc' = [pc EXCEPT ![Root] = "lock"]
            /\ calls' = calls + 1
       ELSE /\ pc' = [pc EXCEPT ![Root] = "sort"]
            /\ UNCHANGED <<pending, calls>>
    /\ UNCHANGED <<fsVars, results, resultsMutex, walkVars, snap, runVars, histVars>>

\* Less with the sizes ascending.
Less_SizeAscending(x, y) ==
    IF x.IsDir # y.IsDir THEN x.IsDir
    ELSE IF x.Size # y.Size THEN x.Size < y.Size
    ELSE StrLess(x.Path, y.Path)

\* The sort's less: directories first, then larger sizes, then smaller paths.
Less(x, y) ==
    IF x.IsDir # y.IsDir THEN x.IsDir
    ELSE IF x.Size # y.Size THEN x.Size > y.Size
    ELSE StrLess(x.Path, y.Path)

\* x put into the sorted s, before the first element it is less than.
RECURSIVE Insert(_, _)
Insert(x, s) ==
    IF s = <<>> THEN <<x>>
    ELSE IF Less(x, Head(s)) THEN <<x>> \o s
    ELSE <<Head(s)>> \o Insert(x, Tail(s))

\* sort.Slice(results, less)
RECURSIVE SortSlice(_)
SortSlice(s) == IF s = <<>> THEN <<>> ELSE Insert(Head(s), SortSlice(Tail(s)))

Sort ==
    /\ pc[Root] = "sort"
    /\ results' = SortSlice(results)
    /\ pc' = [pc EXCEPT ![Root] = "render"]
    /\ UNCHANGED <<fsVars, resultsMutex, walkVars, pending, snap, runVars, histVars, calls>>

\* humanReadableSize's loop: for n := size / unit; n >= unit; n /= unit.
RECURSIVE UnitLoop(_, _, _)
UnitLoop(n, div, exp) ==
    IF n >= 1024 THEN UnitLoop(n \div 1024, div * 1024, exp + 1)
    ELSE [div |-> div, exp |-> exp]

UnitNames == <<"KiB", "MiB", "GiB", "TiB", "PiB", "EiB">>

\* humanReadableSize(size): "%d B" below 1024, else "%.2f %ciB" of size / div, kept
\* as the number of hundredths printed and the unit.
humanReadableSize(size) ==
    IF size < 1024 THEN [Hundredths |-> 100 * size, Unit |-> "B"]
    ELSE LET u == UnitLoop(size \div 1024, 1024, 0)
         IN  [Hundredths |-> (200 * size + u.div) \div (2 * u.div), Unit |-> UnitNames[u.exp + 1]]

\* The line printed for one FileInfo: its type tag, readable size and path.
Line(res) ==
    [Type |-> IF res.IsDir THEN "[DIR] " ELSE "[FILE]",
     Size |-> humanReadableSize(res.Size),
     Path |-> res.Path]

\* The display loop over results, and return nil.
Render ==
    /\ pc[Root] = "render"
    /\ stdout' = [i \in 1..Len(results) |-> Line(results[i])]
    /\ err' = "nil"
    /\ pc' = [pc EXCEPT ![Root] = "exit"]
    /\ UNCHANGED <<fsVars, results, resultsMutex, walkVars, pending, snap, scanPath,
                   threshold, excludeSet, histVars, calls>>

\* ------------------------------------------------------------------ harness

\* The entries as a multiset.
BagOfSeq(s) == [e \in {s[i] : i \in 1..Len(s)} |-> Cardinality({i \in 1..Len(s) : s[i] = e})]

\* What the current invocation added to results.
Added == SubSeq(results, base + 1, Len(results))

\* resetResults that leaves results as they are.
resetResults_Noop ==
    /\ pc[Root] = "reset"
    /\ resultsMutex = "free"
    /\ pc' = [pc EXCEPT ![Root] = "start"]
    /\ UNCHANGED <<fsVars, results, resultsMutex, walkVars, pending, snap, runVars, histVars, calls>>

\* resetResults(): results = nil, under the lock; each test calls it first.
resetResults ==
    /\ pc[Root] = "reset"
    /\ resultsMutex = "free"
    /\ results' = <<>>
    /\ pc' = [pc EXCEPT ![Root] = "start"]
    /\ UNCHANGED <<fsVars, resultsMutex, walkVars, pending, snap, runVars, histVars, calls>>

\* The test loop goes on to its next invocation of run, on the same tree with the
\* same arguments.
NextTest ==
    /\ pc[Root] = "exit"
    /\ runs < MaxRuns
    /\ runs' = runs + 1
    /\ prev' = [valid |-> RunOutcome(argv) = "scan", total |-> ret[Root],
                entries |-> BagOfSeq(Added), rets |-> ret]
    /\ pc' = [pc EXCEPT ![Root] = "reset"]
    /\ UNCHANGED <<fsVars, results, resultsMutex, walkVars, pending, snap, runVars, base, calls>>

\* The thresholds of a table of test cases, in the table's order.
SizeTable == <<<<"0">>, <<"2">>, <<"4">>>>

\* The case after the one with size s (the first one again after the last).
NextSize(s) ==
    IF \E i \in 1..(Len(SizeTable) - 1) : SizeTable[i] = s
    THEN SizeTable[(CHOOSE i \in 1..(Len(SizeTable) - 1) : SizeTable[i] = s) + 1]
    ELSE SizeTable[1]

\* The test loop goes on to its next case: the same tree and exclusions, the
\* next threshold of the table.
NextThreshold ==
    /\ pc[Root] = "exit"
    /\ runs < MaxRuns
    /\ runs' = runs + 1
    /\ argv' = [argv EXCEPT !.minSize = NextSize(argv.minSize)]
    /\ prev' = [valid |-> RunOutcome(argv) = "scan", total |-> ret[Root],
                entries |-> BagOfSeq(Added), rets |-> ret]
    /\ pc' = [pc EXCEPT ![Root] = "reset"]
    /\ UNCHANGED <<fsize, unreadable, nostat, sizeStr, parsed, results, resultsMutex,
                   walkVars, pending, snap, runVars, base, calls>>

\* ------------------------------------------------------------ specification

Step(d) ==
    \/ ReadDir(d)
    \/ SkipExcluded(d)
    \/ Spawn(d)
    \/ StatFile(d)
    \/ AddSize(d)
    \/ Wait(d)
    \/ Close(d)
    \/ Recv(d)
    \/ Return(d)
    \/ GoCheck(d)
    \/ Lock(d)
    \/ AppendLoad(d)
    \/ AppendStore(d)
    \/ Unlock(d)
    \/ Send(d)
    \/ Done(d)

Next ==
    \/ RunReject
    \/ RunScan
    \/ \E d \in Dirs : Step(d)
    \/ RunCheck
    \/ Sort
    \/ Render

\* One invocation of run, as main makes it.
Spec == Init /\ [][Next]_vars

\* The same under the Go scheduler: a goroutine that can run is eventually run,
\* main included.
SpecFair ==
    /\ InitFair
    /\ [][Next]_vars
    /\ \A d \in Dirs : WF_vars(Step(d))
    /\ WF_vars(RunReject \/ RunScan \/ RunCheck \/ Sort \/ Render)

NextRuns ==
    \/ Next
    \/ resetResults
    \/ NextTest

\* A sequence of invocations in one process, as the tests make them.
SpecRuns == InitRuns /\ [][NextRuns]_vars

NextThresholds ==
    \/ Next
    \/ resetResults
    \/ NextThreshold

\* A sequence of invocations that differ in the threshold only.
SpecThresholds == InitThresholds /\ [][NextThresholds]_vars

\* TestParseSize's loop body: got, err := parseSize(tt.input)
TestParseSize ==
    /\ parsed = NotParsed
    /\ parsed' = parseSize(sizeStr)
    /\ UNCHANGED <<fsize, unreadable, nostat, argv, sizeStr, results, resultsMutex, pc,
                   walkVars, pending, snap, runVars, histVars, calls>>

NextParse == TestParseSize

SpecParse == InitParse /\ [][NextParse]_vars

\* ------------------------------------------------- reference (what is on disk)

RECURSIVE SumSizes(_)
SumSizes(S) ==
    IF S = {} THEN 0
    ELSE LET f == CHOOSE x \in S : TRUE IN fsize[f] + SumSizes(S \ {f})

RECURSIVE SumRet(_)
SumRet(S) ==
    IF S = {} THEN 0
    ELSE LET c == CHOOSE x \in S : TRUE IN ret[c] + SumRet(S \ {c})

Children(d) == {n \in Nodes : n # Root /\ Parent(n) = d}

\* n or a directory above it (below the scan root) bears an excluded name.
InExcludedSubtree(n) == \E m \in (Ancestors(n) \cup {n}) \ {Root} : Name(m) \in excludeSet

\* A directory above n cannot be listed.
BelowUnreadable(n) == \E m \in Ancestors(n) : m \in unreadable

\* The scan gets to n: nothing excludes it and every directory above it lists.
Reached(n) == ~InExcludedSubtree(n) /\ ~BelowUnreadable(n)

\* The files the scan can size.
ReadableFiles == {f \in Files : Reached(f) /\ f \notin nostat}

\* The sum of the readable files in d's subtree.
RefTotal(d) == SumSizes({f \in ReadableFiles : Under(f, d)})

\* The entries a scan owes for what lies below the scan root.
RefEntries ==
    {FileInfo(FullPath(f), fsize[f], FALSE) : f \in {g \in ReadableFiles : fsize[g] >= threshold}}
    \cup {FileInfo(FullPath(d), RefTotal(d), TRUE) :
            d \in {e \in Dirs \ {Root} : Reached(e) /\ RefTotal(e) >= threshold}}

\* The root's own entry.
RootEntry == FileInfo(scanPath, ret[Root], TRUE)

\* What a whole run collects: the entries of the tree and the root's, if it qualifies.
Collected == RefEntries \cup (IF ret[Root] >= threshold THEN {RootEntry} ELSE {})

\* The same, read without regard to I/O failures: every non-excluded file counts.
AllFiles == {f \in Files : ~InExcludedSubtree(f)}
AllTotal(d) == SumSizes({f \in AllFiles : Under(f, d)})
AllEntries ==
    {FileInfo(FullPath(f), fsize[f], FALSE) : f \in {g \in AllFiles : fsize[g] >= threshold}}
    \cup {FileInfo(FullPath(d), AllTotal(d), TRUE) :
            d \in {e \in Dirs \ {Root} : ~InExcludedSubtree(e) /\ AllTotal(e) >= threshold}}

SetOfSeq(s) == {s[i] : i \in 1..Len(s)}

\* A scan is under way or has ended (run passed its checks).
Scanning ==
    /\ pc[Root] \notin {"start", "reset"}
    /\ pc[Root] = "exit" =>
          err = "nil" /\ (stdout = <<>> \/ stdout[1].Type # "excluded")

\* The task is inside addResult for a directory (its own walk has returned).
AddingDir(d) == pc[d] \in {"lock", "append", "store", "unlock"} /\ pending[d].IsDir

\* walkDirRecursive(d) has returned in the current scan.
Returned(d) ==
    /\ Scanning
    /\ \/ pc[d] \in {"check", "send", "done", "finished", "sort", "render", "exit"}
       \/ AddingDir(d)

\* ------------------------------------------------------------------- claims

\* C1: the value walkDirRecursive(path) returns is the sum of the sizes of the
\* non-excluded (readable) files directly in path plus the values returned for
\* its non-excluded subdirectories, which is the sum of all non-excluded
\* readable files of the subtree, in every interleaving; a directory that cannot
\* be listed has no readable file and returns 0.
C1_LocalSum(d) ==
    IF d \in unreadable THEN 0
    ELSE SumSizes({f \in Children(d) \cap Files : ~Excluded(f) /\ f \notin nostat})
         + SumRet({c \in Children(d) \cap Dirs : ~Excluded(c)})

C1_RecursiveSum ==
    \A d \in Dirs :
        Returned(d) =>
            /\ \A c \in Children(d) \cap Dirs :
                   (~Excluded(c) /\ d \notin unreadable) => Returned(c)
            /\ ret[d] = C1_LocalSum(d)
            /\ ret[d] = RefTotal(d)

\* C1's case: the root's walk returned a total made of a direct file and of two
\* subdirectories' totals, one of them holding a nested directory.
C1_Witness ==
    /\ pc[Root] = "check"
    /\ unreadable = {} /\ nostat = {} /\ excludeSet = {}
    /\ ret["c"] > 0 /\ ret["a"] > ret["c"] /\ ret["b"] > 0
    /\ ret[Root] = fsize["H"] + ret["a"] + ret["b"]

\* C2: when walkDirRecursive(root) has returned on a collection that started
\* empty, the collection holds exactly one entry per non-excluded file of size >=
\* threshold and one per non-excluded directory below the root of total >=
\* threshold, and nothing else.  As stated, with every non-excluded file on disk
\* counted, whether or not the scan could read it.
C2_AllRecorded ==
    (pc[Root] = "check" /\ base = 0) =>
        /\ SetOfSeq(results) = AllEntries
        /\ Len(results) = Cardinality(AllEntries)

\* C2, amended: the same over the files the scan can read: those below listable
\* directories whose Info succeeds, a directory's total being the sum over
\* these.  No path appears twice.
C2_ReadableRecorded ==
    (pc[Root] = "check" /\ base = 0) =>
        /\ SetOfSeq(results) = RefEntries
        /\ Len(results) = Cardinality(RefEntries)
        /\ \A i, j \in 1..Len(results) : results[i].Path = results[j].Path => i = j

\* C2's case: the root's walk returned with file and directory entries recorded
\* while a file and a directory stayed below the threshold.
C2_Witness ==
    /\ pc[Root] = "check" /\ base = 0
    /\ \E e \in SetOfSeq(results) : e.IsDir
    /\ \E e \in SetOfSeq(results) : ~e.IsDir
    /\ \E f \in ReadableFiles : fsize[f] < threshold
    /\ \E d \in Dirs \ {Root} : Reached(d) /\ RefTotal(d) < threshold

\* C3: a child whose bare name is in the exclusion set is never descended into,
\* has no entry for itself or for anything under it, and adds nothing to any
\* ancestor's total: every returned total is the sum over the tree without the
\* excluded subtrees, and every entry is one of that tree.
C3_KeptFiles == {f \in Files : \A m \in (Ancestors(f) \cup {f}) \ {Root} : Name(m) \notin excludeSet}

C3_ExclusionComplete ==
    Scanning =>
        /\ \A n \in Nodes :
               InExcludedSubtree(n) =>
                   /\ n \in Dirs => pc[n] = "idle"
                   /\ \A i \in 1..Len(results) : results[i].Path # FullPath(n)
        /\ \A d \in Dirs :
               Returned(d) =>
                   ret[d] = SumSizes({f \in C3_KeptFiles :
                                        Under(f, d) /\ ~BelowUnreadable(f) /\ f \notin nostat})

\* C3's case: a scan ended that excluded a directory holding a file and a file of
\* the root, both big enough to be recorded, had they not been excluded.
C3_Witness ==
    /\ pc[Root] = "sort"
    /\ excludeSet = {<<"c">>, <<"H">>}
    /\ unreadable = {} /\ nostat = {}
    /\ fsize["cg"] >= threshold /\ fsize["H"] >= threshold
    /\ ret[Root] = fsize["af"] + fsize["bf"]

\* C4: appends to results are mutually exclusive: at most one task is between
\* addResult's Lock and Unlock, and no append is lost: the collection has grown by
\* one entry for every addResult call that has got past its append.
C4_InCritical == {d \in Dirs : pc[d] \in {"append", "store", "unlock"}}
C4_NotYetStored == {d \in Dirs : pc[d] \in {"lock", "append", "store"}}

C4_MutualExclusion ==
    /\ Cardinality(C4_InCritical) <= 1
    /\ \A d \in C4_InCritical : resultsMutex = d
    /\ Scanning => Len(results) = base + calls - Cardinality(C4_NotYetStored)

\* C4's case: one task is inside the critical section, having read the slice,
\* while two others wait for the lock.
C4_Witness ==
    /\ \E d \in Dirs : pc[d] = "store" /\ snap[d] # <<>>
    /\ Cardinality({d \in Dirs : pc[d] = "lock"}) >= 2

\* The scan owes an entry for n: it gets to n and n's size reaches the threshold.
Owed(n) ==
    IF n \in Files
    THEN n \in ReadableFiles /\ fsize[n] >= threshold
    ELSE Reached(n) /\ RefTotal(n) >= threshold

\* C5: recording is post-order: a directory's entry is appended only after its
\* walkDirRecursive call returned its final total, so after every task of its
\* subtree has finished and after every entry for something under it; the size
\* recorded is that final total, never a partial sum.
C5_PostOrder ==
    (Scanning /\ pc[Root] \notin {"render", "exit"}) =>
        \A d \in Dirs : \A i \in (base + 1)..Len(results) :
            results[i].Path = FullPath(d) =>
                /\ Returned(d)
                /\ results[i] = FileInfo(FullPath(d), ret[d], TRUE)
                /\ ret[d] = RefTotal(d)
                /\ \A c \in Dirs \ {d} : Under(c, d) => pc[c] \in {"idle", "finished"}
                /\ \A n \in Nodes \ {d} :
                       Under(n, d) =>
                           /\ Owed(n) => \E j \in 1..(i - 1) : results[j].Path = FullPath(n)
                           /\ \A j \in (i + 1)..Len(results) : results[j].Path # FullPath(n)

\* C5's case: the entry of a directory with a file and a nested directory is in
\* the collection, after the entries of what it holds, while a sibling's task
\* still runs.
C5_Witness ==
    /\ unreadable = {} /\ nostat = {} /\ excludeSet = {}
    /\ pc["a"] = "send"
    /\ pc["b"] \in {"loop", "lock"}
    /\ \E i \in 1..Len(results) :
           /\ results[i] = FileInfo(FullPath("a"), fsize["af"] + fsize["cg"], TRUE)
           /\ i >= 4

\* C6: a second run over the same tree with the same threshold and exclusion set
\* collects the same multiset of entries and returns the same total as the first,
\* whatever the interleaving of the tasks in either run.
C6_Idempotent ==
    (Scanning /\ runs >= 2 /\ prev.valid /\ pc[Root] \in {"sort", "render", "exit"}) =>
        /\ ret[Root] = prev.total
        /\ BagOfSeq(Added) = prev.entries

\* C6's case: the second run has collected its entries, in an order that is not
\* the first run's listing order (a file came first).
C6_Witness ==
    /\ runs = 2 /\ prev.valid /\ pc[Root] = "sort"
    /\ Len(results) >= 5
    /\ ~results[1].IsDir
    /\ prev.total > 0

C8_FailureLocal ==
    Scanning =>
        /\ err \in {"none", "nil"}
        /\ \A d \in unreadable :
               /\ Returned(d) => ret[d] = 0
               /\ \A c \in Children(d) \cap Dirs : pc[c] = "idle"
               /\ \A n \in Nodes \ {d} :
                      Under(n, d) => \A i \in 1..Len(results) : results[i].Path # FullPath(n)
        /\ \A f \in nostat :
               /\ \A i \in 1..Len(results) : results[i].Path # FullPath(f)
               /\ (Returned(Parent(f)) /\ Parent(f) \notin unreadable) =>
                      ret[Parent(f)] =
                          SumSizes({g \in (Children(Parent(f)) \cap Files) \ {f} :
                                       ~Excluded(g) /\ g \notin nostat})
                          + SumRet({c \in Children(Parent(f)) \cap Dirs : ~Excluded(c)})
        /\ pc[Root] = "exit" =>
               /\ err = "nil"
               /\ \A d \in Dirs : Reached(d) => (Returned(d) /\ ret[d] = RefTotal(d))

\* C8's case: a scan ended in which a directory could not be listed and a file's
\* Info failed, while their siblings were summed and recorded.
C8_Witness ==
    /\ Scanning /\ pc[Root] = "exit"
    /\ unreadable = {"c"} /\ nostat = {"af"} /\ excludeSet = {}
    /\ ret["a"] = 0
    /\ ret[Root] = fsize["H"] + fsize["bf"]
    /\ \E i \in 1..Len(results) : results[i].Path = FullPath("bf")

\* C9: run compares the root's total with the threshold only after the whole
\* traversal: from then on no subdirectory task runs or can append; the root's
\* entry is appended iff the total is >= threshold, and it is the last one.
C9_RootLast ==
    (Scanning /\ (pc[Root] \in {"check", "sort", "render", "exit"} \/ AddingDir(Root))) =>
        /\ \A d \in Dirs \ {Root} : pc[d] \in {"idle", "finished"}
        /\ resultsMutex \in {"free", Root}
        /\ pc[Root] = "check" => \A i \in (base + 1)..Len(results) : results[i].Path # scanPath
        /\ pc[Root] = "sort" =>
               /\ (\E i \in (base + 1)..Len(results) : results[i].Path = scanPath)
                      <=> ret[Root] >= threshold
               /\ \A i \in (base + 1)..Len(results) :
                      results[i].Path = scanPath => (i = Len(results) /\ results[i] = RootEntry)

\* C9's case: the root's entry has just been appended, after those of the tree.
C9_Witness ==
    /\ pc[Root] = "sort"
    /\ Len(results) >= 5
    /\ results[Len(results)] = RootEntry
    /\ ret[Root] >= threshold /\ threshold > 0

\* The order of the listing.
C10_Before(x, y) ==
    \/ x.IsDir /\ ~y.IsDir
    \/ x.IsDir = y.IsDir /\ x.Size > y.Size
    \/ x.IsDir = y.IsDir /\ x.Size = y.Size /\ StrLess(x.Path, y.Path)

\* C10: the listing run prints is a permutation of the collected entries in a
\* strict total order: directories before files, then larger sizes first, then
\* ascending paths, one line per entry; so it is the same whatever order the
\* entries were appended in.
C10_SortedListing ==
    (Scanning /\ pc[Root] = "exit") =>
        /\ Len(results) = Cardinality(Collected)
        /\ SetOfSeq(results) = Collected
        /\ \A i, j \in 1..Len(results) : i < j => C10_Before(results[i], results[j])
        /\ Len(stdout) = Len(results)
        /\ \A i \in 1..Len(stdout) :
               /\ stdout[i].Path = results[i].Path
               /\ stdout[i].Type = (IF results[i].IsDir THEN "[DIR] " ELSE "[FILE]")

\* C10's case: a listing with two directories of one size, two files of one
\* size, and files of different sizes.
C10_Witness ==
    /\ Scanning /\ pc[Root] = "exit"
    /\ Len(stdout) >= 6
    /\ \E i \in 1..(Len(results) - 1) :
           /\ results[i].IsDir /\ results[i + 1].IsDir
           /\ results[i].Size = results[i + 1].Size
    /\ \E i \in 1..(Len(results) - 1) :
           /\ ~results[i].IsDir /\ ~results[i + 1].IsDir
           /\ results[i].Size = results[i + 1].Size
    /\ \E i \in 1..(Len(results) - 1) :
           /\ ~results[i].IsDir /\ ~results[i + 1].IsDir
           /\ results[i].Size > results[i + 1].Size

\* The traversal is in progress: walkDirRecursive has been called for the scan
\* path and run has not yet reached its sort.
C11_Traversing ==
    /\ Scanning
    /\ pc[Root] \notin {"sort", "render", "exit"}

\* C11: while a traversal is in progress, every step of every task leaves
\* results as it is or extends it by exactly one entry at its end: no entry
\* already recorded is modified, moved or removed.
C11_AppendOnly ==
    [][C11_Traversing =>
          \/ results' = results
          \/ /\ Len(results') = Len(results) + 1
             /\ SubSeq(results', 1, Len(results)) = results]_vars

\* C11's case: two tasks have each recorded an entry and a third is about to
\* store its own behind them.
C11_Witness ==
    /\ C11_Traversing
    /\ Len(results) >= 2
    /\ \E d \in Dirs : pc[d] = "store" /\ snap[d] = results

\* The claim's size strings: a decimal number (digits with at most one point)
\* directly followed by nothing, by B, or by one of K, M, G, T, P and an optional
\* B, in either case.
C12_Units ==
    {<<>>} \cup {<<c>> : c \in UnitLetters \cup BLetters}
           \cup {<<c, b>> : c \in UnitLetters, b \in BLetters}

C12_IsNumber(num) ==
    /\ \A i \in 1..Len(num) : IsDigit(num[i]) \/ num[i] = Dot
    /\ \E i \in 1..Len(num) : IsDigit(num[i])
    /\ CountDots(num) <= 1

C12_Splits(s) ==
    {k \in 1..Len(s) : C12_IsNumber(SubSeq(s, 1, k)) /\ SubSeq(s, k + 1, Len(s)) \in C12_Units}

\* The power of 1024 the claim gives each unit.
C12_Power(unit) ==
    LET up == IF unit = <<>> THEN "" ELSE ToUpper(unit[1])
    IN  CASE up = "P" -> 5
          [] up = "T" -> 4
          [] up = "G" -> 3
          [] up = "M" -> 2
          [] up = "K" -> 1
          [] OTHER -> 0

\* N times the claim's multiplier, the fraction cut off.
C12_Expected(s) ==
    LET k == CHOOSE k \in C12_Splits(s) : TRUE
        num == SubSeq(s, 1, k)
    IN  Truncate(Mantissa(num, 0), C12_Power(SubSeq(s, k + 1, Len(s))), FracDigits(num))

\* C12: for every size string made of a non-negative decimal number N and an
\* optional unit among B, K, M, G, T, P (any case, optionally followed by B),
\* parseSize returns no error and N times the unit's multiplier (1, 1024,
\* 1024^2, 1024^3, 1024^4, 1024^5; 1 without a unit), truncated toward zero.
C12_Multiplies ==
    (parsed # NotParsed /\ C12_Splits(sizeStr) # {}) =>
        /\ parsed.err = "nil"
        /\ parsed.val = C12_Expected(sizeStr)

\* The claim's kinds of bad size string, read off the string without its outer
\* blanks: nothing, no number in front, a minus in front, a number that is not
\* a decimal, and a number followed by something that is not a unit.
C13_Empty(t) == t = <<>>
C13_NoLeadingNumber(t) == t # <<>> /\ ~IsDigit(Head(t)) /\ Head(t) # Dot
C13_LeadingMinus(t) == t # <<>> /\ Head(t) = "-"
C13_BadNumber(t) ==
    LET num == SubSeq(t, 1, NumPrefixLen(t))
    IN  num # <<>> /\ ~C12_IsNumber(num)
C13_UnknownUnit(t) ==
    /\ NumPrefixLen(t) >= 1
    /\ TrimLeft(SubSeq(t, NumPrefixLen(t) + 1, Len(t))) \notin C12_Units

C13_Bad(s) ==
    LET t == TrimSpace(s)
    IN  \/ C13_Empty(t)
        \/ C13_NoLeadingNumber(t)
        \/ C13_LeadingMinus(t)
        \/ C13_BadNumber(t)
        \/ C13_UnknownUnit(t)

\* C13: parseSize returns an error and the value 0 for every string that is
\* not a non-negative decimal number followed by an optional unit: the empty
\* string, a string without a leading number, one with an unknown unit suffix,
\* one with a leading minus sign, and one whose numeric part is not a valid
\* decimal number (more than one decimal point, or no digit).
C13_Rejects ==
    (parsed # NotParsed /\ C13_Bad(sizeStr)) =>
        /\ parsed.err \in {"invalid size format", "invalid size number"}
        /\ parsed.val = Uint64(0)

\* C13's case: a string the regexp lets through (digits and points, then a
\* unit) whose number has two decimal points has been rejected.
C13_Witness ==
    /\ parsed # NotParsed
    /\ CountDots(sizeStr) = 2
    /\ SizeMatch(sizeStr).ok
    /\ parsed.err = "invalid size number"
    /\ parsed.val = Uint64(0)

\* The argument lists the claim speaks of: not two positional arguments, a size
\* parseSize rejects, a path os.Stat does not find, or a path that is a file.
C14_Invalid(a) ==
    \/ a.narg # 2
    \/ parseSize(a.minSize).err # "nil"
    \/ StatKind(Clean(a.dir)) \in {"missing", "file"}

\* No walkDirRecursive call was made and results is as it was.
C14_Untouched ==
    /\ results = <<>>
    /\ calls = 0
    /\ \A d \in Dirs \ {Root} : pc[d] = "idle"
    /\ ret = Fresh(0)

\* C14: run returns an error (main then exits with 1) whenever the number of
\* positional arguments is not two, the size argument does not parse, the path
\* does not exist or cannot be accessed, or the path is not a directory; in
\* each of these cases no traversal is started and no entry is added.
C14_ErrorsReturned ==
    (pc[Root] = "exit" /\ C14_Invalid(argv)) =>
        /\ err \notin {"nil", "none"}
        /\ C14_Untouched

\* run was given its two positional arguments and the bare name of the cleaned
\* directory argument is in the exclude set.
C15_TopExcluded(a) ==
    /\ a.narg = 2
    /\ Base(Clean(a.dir)) \in BuildExcludeSet(a.exclude)

\* C15: when the bare name of the cleaned top-level directory is in the
\* exclusion set, run returns success without traversing: walkDirRecursive is
\* never called and results is unchanged.
C15_ExcludedTopLevel ==
    (C15_TopExcluded(argv) /\ pc[Root] # "start") =>
        /\ pc[Root] = "exit"
        /\ err = "nil"
        /\ results = <<>>
        /\ calls = 0
        /\ \A d \in Dirs \ {Root} : pc[d] = "idle"
        /\ idx = Fresh(0) /\ ret = Fresh(0)
        /\ Len(stdout) = 1 /\ stdout[1].Type = "excluded"

\* C15's case: run has returned for a directory argument with a trailing
\* separator whose cleaned name is excluded.
C15_Witness ==
    /\ C15_TopExcluded(argv)
    /\ argv.dir # Clean(argv.dir)
    /\ pc[Root] = "exit"
    /\ err = "nil"
    /\ stdout[1].Path = RootPath

\* Task d is at one of the four operations that can block (wg.Wait,
\* resultsMutex.Lock, the channel send, the channel receive of the range loop)
\* and cannot complete it now.
C16_Waiting(d) ==
    \/ pc[d] = "wait" /\ wg[d] > 0
    \/ pc[d] = "lock" /\ resultsMutex # "free"
    \/ pc[d] = "send" /\ ~closed[Parent(d)] /\ Len(sizeChannel[Parent(d)]) >= Cap(Parent(d))
    \/ pc[d] = "drain" /\ sizeChannel[d] = <<>> /\ ~closed[d]

\* C16 as stated: a directory's task blocks only at the join where it waits for
\* its child-directory tasks; the hand-off of a child's total never waits for
\* the parent and the parent's collection after the join never waits.
C16_BlocksOnlyAtJoin ==
    \A d \in Dirs : C16_Waiting(d) => pc[d] = "wait"

\* C16, amended: a directory's task waits for other tasks only at the join and
\* at resultsMutex.Lock in addResult; a child's hand-off never waits (the
\* parent's channel always has room for it: it holds at most one value per
\* child spawned, and its capacity is the number of entries), and the parent's
\* collection after the join never waits (the channel is already closed).
C16_BlocksAtJoinOrLock ==
    \A d \in Dirs :
        /\ C16_Waiting(d) => pc[d] \in {"wait", "lock"}
        /\ pc[d] = "drain" => closed[d]
        /\ (d # Root /\ pc[d] = "send") => Len(sizeChannel[Parent(d)]) < Cap(Parent(d))
        /\ Len(sizeChannel[d]) <= Cap(d)

\* C16's case: a child hands its total over while its parent is still in its
\* loop, waiting for the lock another task holds.
C16_Witness ==
    /\ pc["c"] = "send"
    /\ pc["a"] = "lock"
    /\ resultsMutex = "b"
    /\ C16_Waiting("a")
    /\ ~C16_Waiting("c")

\* Every task that was started is through: run has returned and each goroutine
\* spawned has ended.
C17_AllReturned ==
    /\ pc[Root] = "exit"
    /\ \A d \in Dirs \ {Root} : pc[d] \in {"idle", "finished"}

\* C17: under fair scheduling every walkDirRecursive call eventually returns
\* and every spawned subdirectory task eventually finishes, also when some
\* directories cannot be listed: no task waits forever at the join, at the
\* lock or on the channel.
C17_Terminates ==
    /\ <>[]C17_AllReturned
    /\ \A d \in Dirs \ {Root} : (pc[d] = "readdir") ~> (pc[d] = "finished")

\* C17's case: a scan with a directory that failed to list has returned, its
\* goroutines ended, the failed one among them.
C17_Witness ==
    /\ C17_AllReturned
    /\ Scanning
    /\ unreadable = {"c"}
    /\ pc["c"] = "finished" /\ pc["a"] = "finished" /\ pc["b"] = "finished"

\* C18: the total walkDirRecursive returns for a directory does not depend on
\* the threshold: on the same tree with the same exclusions, a scan with one
\* threshold returns for every directory the total a scan with another
\* threshold returned; the threshold decides only which entries are recorded.
C18_SameTotals ==
    (Scanning /\ runs >= 2 /\ prev.valid) =>
        \A d \in Dirs : Returned(d) => ret[d] = prev.rets[d]

\* C18's case: two scans with different thresholds have returned the same
\* non-zero totals and recorded different entries.
C18_Witness ==
    /\ Scanning /\ runs = 2 /\ prev.valid /\ pc[Root] = "exit"
    /\ ret = prev.rets
    /\ ret["c"] > 0 /\ ret["a"] > ret["c"] /\ ret[Root] > ret["a"]
    /\ BagOfSeq(Added) # prev.entries
    /\ BagOfSeq(Added) # EmptyBag /\ prev.entries # EmptyBag

\* The children the call for p has spawned, those that have sent their total,
\* and those that have signalled Done.
C19_Spawned(p) == {c \in Dirs \ {Root} : Parent(c) = p /\ pc[c] # "idle"}
C19_Sent(p) == {c \in C19_Spawned(p) : pc[c] \in {"done", "finished"}}
C19_Signalled(p) == {c \in C19_Spawned(p) : pc[c] = "finished"}

\* The call for p is between make(chan) and close(sizeChannel).
C19_Open(p) ==
    \/ pc[p] \in {"loop", "addsize", "wait", "close"}
    \/ pc[p] \in {"lock", "append", "store", "unlock"} /\ ~AddingDir(p)

\* The sizes of the files p's loop has added: its own, readable, not excluded.
C19_Local(p) ==
    SumSizes({f \in Files : Parent(f) = p /\ Name(f) \notin excludeSet /\ f \notin nostat})

RECURSIVE C19_Sum(_)
C19_Sum(q) == IF q = <<>> THEN 0 ELSE Head(q) + C19_Sum(Tail(q))

\* C19: each spawned child sends exactly one value on the parent's channel
\* before it signals Done; the channel is closed only after all children have
\* signalled, so no send meets a closed channel; and the parent reads exactly
\* as many totals as it spawned children, each child's total exactly once.
C19_Protocol ==
    [](Scanning =>
        \A p \in Dirs :
            /\ pc[p] # "panic"
            /\ C19_Open(p) =>
                   /\ ~closed[p]
                   /\ wg[p] = Cardinality(C19_Spawned(p) \ C19_Signalled(p))
                   /\ Len(sizeChannel[p]) = Cardinality(C19_Sent(p))
                   /\ C19_Sum(sizeChannel[p]) = SumRet(C19_Sent(p))
            /\ closed[p] => (C19_Signalled(p) = C19_Spawned(p) /\ wg[p] = 0)
            /\ pc[p] = "drain" =>
                   /\ closed[p]
                   /\ Len(sizeChannel[p]) <= Cardinality(C19_Spawned(p))
                   /\ totalSize[p] + C19_Sum(sizeChannel[p])
                          = C19_Local(p) + SumRet(C19_Spawned(p))
            /\ (Returned(p) /\ p \notin unreadable) =>
                   /\ sizeChannel[p] = <<>>
                   /\ ret[p] = C19_Local(p) + SumRet(C19_Spawned(p)))

\* C19's case: at the join, one child has sent and signalled, the other has
\* sent and not yet signalled; both totals are in the channel, still open.
C19_Witness ==
    /\ Scanning
    /\ pc[Root] = "wait" /\ wg[Root] = 1 /\ ~closed[Root]
    /\ pc["a"] = "done" /\ pc["b"] = "finished"
    /\ sizeChannel[Root] = <<ret["b"], ret["a"]>>
    /\ ret["a"] # ret["b"]

\* results has a directory entry for d of at least the given size.
C20_HasDir(d, size) ==
    \E j \in 1..Len(results) :
        /\ results[j].Path = FullPath(d)
        /\ results[j].IsDir
        /\ results[j].Size >= size

\* C20: when a run has completed, the result set is upward closed: if it has
\* an entry for a path p, then for every directory from p's parent up to and
\* including the scan root it has a directory entry whose recorded size is at
\* least p's.
C20_UpwardClosed ==
    (Scanning /\ pc[Root] \in {"sort", "render", "exit"}) =>
        \A i \in 1..Len(results) :
            \A n \in Nodes :
                (results[i].Path = FullPath(n) /\ results[i].IsDir = IsDir(n)) =>
                    \A d \in Ancestors(n) : C20_HasDir(d, results[i].Size)

\* C20's case: a run has completed with an entry for the deepest file and
\* entries for the three directories above it, while a file beside them is
\* below the threshold and has none.
C20_Witness ==
    /\ Scanning /\ pc[Root] = "exit"
    /\ threshold > 1
    /\ \E i \in 1..Len(results) : results[i] = FileInfo(FullPath("cg"), fsize["cg"], FALSE)
    /\ C20_HasDir("c", fsize["cg"]) /\ C20_HasDir("a", ret["c"]) /\ C20_HasDir(Root, ret["a"])
    /\ ret["a"] > ret["c"] /\ ret[Root] > ret["a"]
    /\ \A i \in 1..Len(results) : results[i].Path # FullPath("H")

====
